---------------------------- MODULE Spec2Model ----------------------------
(***************************************************************************)
(* smcroute, src/mroute-api.c: the interface routines to the kernel's      *)
(* multicast routing API.  The module models the IPv4 route store (the     *)
(* any-source template list mroute4_conf_list and the list of dynamically  *)
(* set routes mroute4_dyn_list), the VIF and MIF slot tables, and the      *)
(* enable and disable sequences of both address families.                  *)
(*                                                                         *)
(* Every handler leaves a trace of what it did in evlog (the system calls  *)
(* it issued with their outcome, and its smclog lines of severity notice   *)
(* and above), its return value in ret and its identity in call.           *)
(***************************************************************************)
EXTENDS Integers, Sequences, FiniteSets, TLC

(***************************************************************************)
(* Bounds of the model.                                                    *)
(***************************************************************************)
\* The mroute4_t entries the heap has room for: the two lists together hold
\* no more, and malloc gives NULL once they hold that many.
MaxEntries == 3
\* Slots of the IPv4 and of the IPv6 table (32 each in the kernel headers).
MAXVIFS == 2
MAXMIFS == 2

\* Addresses are small numbers; 0 is the all-zero IPv4 address.
INADDR_ANY == 0
Groups == {1, 2}
Senders == {1}
\* The inbound VIF of a request (a short: the code never range-checks it).
Inbounds == {0, 1}
\* TTL thresholds a request may carry in each slot of its vector.
Ttls == {0, 1}
\* The request vectors: the same threshold in every slot.
TtlVectors == {[v \in 0 .. MAXVIFS - 1 |-> t] : t \in Ttls}

\* The errno values the code names or can meet (Linux numbering).
Errno ==
  [EPERM |-> 1, ENOENT |-> 2, EBADF |-> 9, ENOMEM |-> 12, EACCES |-> 13,
   EINVAL |-> 22, ENOPROTOOPT |-> 92, EOPNOTSUPP |-> 95, EADDRINUSE |-> 98]

\* A null pointer.  Interface pointers are positions 1..n of the directory.
NULL == 0

\* The interface directory holds one interface more than the larger table.
NumIfaces == (IF MAXVIFS > MAXMIFS THEN MAXVIFS ELSE MAXMIFS) + 1

VARIABLES
  mroute4_socket,     \* the IPv4 control socket, -1 when not open
  mroute6_socket,     \* the IPv6 control socket, -1 when not open
  mroute4_conf_list,  \* the any-source templates, head first
  mroute4_dyn_list,   \* the dynamically set (S,G) routes, head first
  vif_list,           \* slot -> owning interface, or NULL
  mif_list,           \* slot -> owning interface, or NULL
  iface_list,         \* the interface directory: flags, vif, mif
  pc,                 \* the handler in progress and its loop index
  call,               \* the last handler entered and its argument
  ret,                \* its return value
  errno,              \* the errno it left (0: it set none)
  evlog,              \* what it did: system calls and log lines
  crashed             \* the process faulted on a read of freed memory

vars ==
  <<mroute4_socket, mroute6_socket, mroute4_conf_list, mroute4_dyn_list,
    vif_list, mif_list, iface_list, pc, call, ret, errno, evlog, crashed>>


(***************************************************************************)
(* Values.                                                                 *)
(***************************************************************************)
\* A mroute4_t without its list link: sender, group, inbound VIF, TTLs.
Mroute4(s, g, i, t) == [sender |-> s, group |-> g, inbound |-> i, ttl |-> t]

\* The requests a caller may pass: any sender (the wildcard included).
Requests ==
  {Mroute4(s, g, i, t) : s \in Senders \cup {INADDR_ANY}, g \in Groups,
                         i \in Inbounds, t \in TtlVectors}

\* The requests of one key, (group 1, inbound 0), from the wildcard and two
\* senders.
DynRequests ==
  {Mroute4(s, 1, 0, [v \in 0 .. MAXVIFS - 1 |-> 1]) : s \in {INADDR_ANY, 1, 2}}

\* One entry of a handler's trace: a system call or a log line.
Ev(op, arg, err) == [op |-> op, arg |-> arg, err |-> err]
Sys(op, arg, err) == Ev(op, arg, err)
Log(sev, code, msg) == Ev("smclog", [sev |-> sev, msg |-> msg], code)
\* malloc(sizeof(mroute4_t)) and whether it gave storage.
Malloc(ok) == Ev("malloc", [size |-> "mroute4_t"], IF ok THEN 0 ELSE Errno.ENOMEM)
\* The traversal took its next element from an entry it had already freed.
ReadFreed(list) == Ev("read_freed", [list |-> list], 0)

\* What reading le_next of a freed entry can give: the value the entry held
\* (its successor, still linked), a null pointer the allocator wrote over
\* it, or a pointer that faults when followed.
FreedReadOutcomes == {"stale", "null", "fault"}

\* What setsockopt reports on the socket: 0, or an errno.  A socket that is
\* not open gives EBADF.
KernelResults(sock) ==
  IF sock < 0 THEN {Errno.EBADF} ELSE {0, Errno.EINVAL}

\* malloc(sizeof(mroute4_t)) gives storage (TRUE) or NULL (FALSE); NULL
\* alone when the heap is full.
MallocResults(conf, dyn) ==
  IF Len(conf) + Len(dyn) < MaxEntries THEN {TRUE, FALSE} ELSE {FALSE}

\* The sequence without its element at position i.
RemoveAt(list, i) ==
  [k \in 1 .. Len(list) - 1 |-> IF k < i THEN list[k] ELSE list[k + 1]]

\* A variant of the test that forgets the inbound VIF.
MatchesGroupOnly(entry, ptr) == entry.group = ptr.group

\* The test of both traversals: same group and same inbound VIF.
Matches(entry, ptr) ==
  entry.group = ptr.group /\ entry.inbound = ptr.inbound

(***************************************************************************)
(* The kernel calls of the IPv4 forwarding cache.  Each gives the set of   *)
(* its possible outcomes [ret, ev].                                        *)
(***************************************************************************)
__mroute4_add(ptr, sock) ==
  {[ret |-> e,
    ev |-> <<Log("LOG_NOTICE", 0, "Add MFC"),
             Sys("MRT_ADD_MFC",
                 [origin |-> ptr.sender, mcastgrp |-> ptr.group,
                  parent |-> ptr.inbound, ttls |-> ptr.ttl], e)>>
            \o (IF e # 0 THEN <<Log("LOG_WARNING", e, "MRT_ADD_MFC")>>
                ELSE <<>>)] : e \in KernelResults(sock)}

__mroute4_del(ptr, sock) ==
  {[ret |-> e,
    ev |-> <<Log("LOG_NOTICE", 0, "Del MFC"),
             Sys("MRT_DEL_MFC",
                 [origin |-> ptr.sender, mcastgrp |-> ptr.group], e)>>
            \o (IF e # 0 THEN <<Log("LOG_WARNING", e, "MRT_DEL_MFC")>>
                ELSE <<>>)] : e \in KernelResults(sock)}

(***************************************************************************)
(* mroute4_dyn_add: the outcomes [conf, dyn, ret, ev, crashed] of a call   *)
(* with request ptr on the lists conf and dyn.                             *)
(***************************************************************************)
\* LIST_FOREACH from the head: the position of the first matching template,
\* 0 when none matches.
FirstMatch(conf, ptr) ==
  IF \E i \in 1 .. Len(conf) : Matches(conf[i], ptr)
  THEN CHOOSE i \in 1 .. Len(conf) :
         /\ Matches(conf[i], ptr)
         /\ \A k \in 1 .. i - 1 : ~Matches(conf[k], ptr)
  ELSE 0

\* The entry put on the dynamic list: memcpy(entry, ptr, ...) copies the
\* request.
DynEntry(template, ptr) == ptr

\* The route handed to __mroute4_add: the request.
DynRoute(template, ptr) == ptr

\* A variant that does not return at the first match: it handles every
\* matching template.
mroute4_dyn_add_every(conf, dyn, sock, ptr) ==
  LET hits == {i \in 1 .. Len(conf) : Matches(conf[i], ptr)}
      n == Cardinality(hits)
  IN
  IF n = 0
  THEN {[conf |-> conf, dyn |-> dyn, ret |-> -1, errno |-> Errno.ENOENT,
         ev |-> <<>>, crashed |-> FALSE]}
  ELSE {[conf |-> conf,
         dyn |-> IF ok THEN [i \in 1 .. n |-> ptr] \o dyn ELSE dyn,
         ret |-> k.ret, errno |-> k.ret,
         ev |-> <<Malloc(ok)>> \o k.ev \o (IF n > 1 THEN k.ev ELSE <<>>),
         crashed |-> FALSE] :
          ok \in MallocResults(conf, dyn), k \in __mroute4_add(ptr, sock)}

\* A variant that gives up when malloc gives no storage: ENOMEM and no
\* kernel call.
mroute4_dyn_add_nomem(conf, dyn, sock, ptr) ==
  LET m == FirstMatch(conf, ptr) IN
  IF m = 0
  THEN {[conf |-> conf, dyn |-> dyn, ret |-> -1, errno |-> Errno.ENOENT,
         ev |-> <<>>, crashed |-> FALSE]}
  ELSE UNION {IF ok
              THEN {[conf |-> conf, dyn |-> <<ptr>> \o dyn, ret |-> k.ret,
                     errno |-> k.ret, ev |-> <<Malloc(ok)>> \o k.ev,
                     crashed |-> FALSE] : k \in __mroute4_add(ptr, sock)}
              ELSE {[conf |-> conf, dyn |-> dyn, ret |-> Errno.ENOMEM,
                     errno |-> Errno.ENOMEM, ev |-> <<Malloc(ok)>>,
                     crashed |-> FALSE]} : ok \in MallocResults(conf, dyn)}

mroute4_dyn_add(conf, dyn, sock, ptr) ==
  LET m == FirstMatch(conf, ptr) IN
  IF m = 0
  THEN {[conf |-> conf, dyn |-> dyn, ret |-> -1, errno |-> Errno.ENOENT,
         ev |-> <<>>, crashed |-> FALSE]}
  ELSE {[conf |-> conf,
         dyn |-> IF ok THEN <<DynEntry(conf[m], ptr)>> \o dyn ELSE dyn,
         ret |-> k.ret, errno |-> k.ret, ev |-> <<Malloc(ok)>> \o k.ev,
         crashed |-> FALSE] :
          ok \in MallocResults(conf, dyn),
          k \in __mroute4_add(DynRoute(conf[m], ptr), sock)}

(***************************************************************************)
(* mroute4_add.                                                            *)
(***************************************************************************)
\* A variant with a duplicate check: a template already stored is not
\* stored again.
mroute4_add_unique(conf, dyn, sock, ptr) ==
  IF ptr.sender = INADDR_ANY
  THEN {[conf |-> IF ok /\ \A k \in DOMAIN conf : conf[k] # ptr
                  THEN <<ptr>> \o conf ELSE conf,
         dyn |-> dyn, ret |-> IF ok THEN 0 ELSE Errno.ENOMEM,
         errno |-> IF ok THEN 0 ELSE Errno.ENOMEM,
         ev |-> <<Malloc(ok)>>, crashed |-> FALSE] :
        ok \in MallocResults(conf, dyn)}
  ELSE {[conf |-> conf, dyn |-> dyn, ret |-> k.ret, errno |-> k.ret,
         ev |-> k.ev, crashed |-> FALSE] : k \in __mroute4_add(ptr, sock)}

mroute4_add(conf, dyn, sock, ptr) ==
  IF ptr.sender = INADDR_ANY
  THEN {IF ok
        THEN [conf |-> <<ptr>> \o conf, dyn |-> dyn, ret |-> 0, errno |-> 0,
              ev |-> <<Malloc(ok)>>, crashed |-> FALSE]
        ELSE [conf |-> conf, dyn |-> dyn, ret |-> Errno.ENOMEM,
              errno |-> Errno.ENOMEM,
              ev |-> <<Malloc(ok),
                       Log("LOG_WARNING", Errno.ENOMEM, "Failed allocating")>>,
              crashed |-> FALSE] : ok \in MallocResults(conf, dyn)}
  ELSE {[conf |-> conf, dyn |-> dyn, ret |-> k.ret, errno |-> k.ret,
         ev |-> k.ev, crashed |-> FALSE] : k \in __mroute4_add(ptr, sock)}

(***************************************************************************)
(* mroute4_del.  Both loops are LIST_FOREACH loops that unlink and free    *)
(* the entry they stand on and then take its le_next.  A traversal state   *)
(* is [conf, dyn, ev, crashed].                                            *)
(***************************************************************************)
\* The loop's step after the entry it stands on was unlinked and freed:
\* the three things the entry's le_next can read as.  Each outcome is the
\* state and whether the loop goes on (with the successor, which now stands
\* where the freed entry stood).
AfterFree(t, list) ==
  LET t1 == [t EXCEPT !.ev = @ \o <<ReadFreed(list)>>] IN
  {CASE o = "stale" -> [st |-> t1, on |-> TRUE]
     [] o = "null" -> [st |-> t1, on |-> FALSE]
     [] o = "fault" -> [st |-> [t1 EXCEPT !.crashed = TRUE], on |-> FALSE] :
   o \in FreedReadOutcomes}

\* The inner loop from position j of the dynamic list, for template `entry`.
RECURSIVE DynSweep(_, _, _, _)
DynSweep(entry, sock, t, j) ==
  IF j > Len(t.dyn) THEN {t}
  ELSE IF Matches(entry, t.dyn[j])
  THEN UNION {IF a.on THEN DynSweep(entry, sock, a.st, j) ELSE {a.st} :
              a \in UNION {AfterFree([t EXCEPT !.ev = @ \o k.ev,
                                               !.dyn = RemoveAt(@, j)], "dyn") :
                           k \in __mroute4_del(t.dyn[j], sock)}}
  ELSE DynSweep(entry, sock, t, j + 1)

\* The outer loop from position i of the template list.
RECURSIVE ConfSweep(_, _, _, _)
ConfSweep(ptr, sock, t, i) ==
  IF i > Len(t.conf) THEN {t}
  ELSE IF Matches(t.conf[i], ptr)
  THEN UNION {IF t1.crashed THEN {t1}
              ELSE UNION {IF a.on THEN ConfSweep(ptr, sock, a.st, i)
                          ELSE {a.st} :
                          a \in AfterFree([t1 EXCEPT !.conf = RemoveAt(@, i)],
                                          "conf")} :
              t1 \in DynSweep(t.conf[i], sock, t, 1)}
  ELSE ConfSweep(ptr, sock, t, i + 1)

\* A variant that keeps the dynamic list in step with source-specific
\* removals: the entries of the request's (sender, group) leave the list.
mroute4_del_forgets(conf, dyn, sock, ptr) ==
  LET keep == SelectSeq(dyn, LAMBDA d : ~(d.sender = ptr.sender
                                          /\ d.group = ptr.group))
  IN {[conf |-> conf, dyn |-> keep, ret |-> k.ret, errno |-> k.ret,
       ev |-> k.ev, crashed |-> FALSE] : k \in __mroute4_del(ptr, sock)}

\* A variant whose inner loop does not wait for a template: it sweeps the
\* dynamic list with the request's own key.
mroute4_del_orphans(conf, dyn, sock, ptr) ==
  LET t0 == [conf |-> conf, dyn |-> dyn, ev |-> <<>>, crashed |-> FALSE]
      swept == IF ptr.sender = INADDR_ANY THEN DynSweep(ptr, sock, t0, 1)
               ELSE {t0}
  IN UNION {{[conf |-> t.conf, dyn |-> t.dyn, ret |-> k.ret,
              errno |-> k.ret, ev |-> t.ev \o k.ev, crashed |-> t.crashed] :
             k \in __mroute4_del(ptr, sock)} : t \in swept}

mroute4_del(conf, dyn, sock, ptr) ==
  LET t0 == [conf |-> conf, dyn |-> dyn, ev |-> <<>>, crashed |-> FALSE]
      swept == IF ptr.sender = INADDR_ANY THEN ConfSweep(ptr, sock, t0, 1)
               ELSE {t0}
  IN UNION {IF t.crashed
            THEN {[conf |-> t.conf, dyn |-> t.dyn, ret |-> 0, errno |-> 0,
                   ev |-> t.ev, crashed |-> TRUE]}
            ELSE {[conf |-> t.conf, dyn |-> t.dyn, ret |-> k.ret,
                   errno |-> k.ret, ev |-> t.ev \o k.ev, crashed |-> FALSE] :
                  k \in __mroute4_del(ptr, sock)} : t \in swept}


(***************************************************************************)
(* The slot tables.  An interface is [loopback, vif, mif]; a pointer to it *)
(* is its position in the directory.                                       *)
(***************************************************************************)
\* iface_find_by_index(i): the interface at index i (from 0), or NULL.
iface_find_by_index(ifl, i) == IF i + 1 \in DOMAIN ifl THEN i + 1 ELSE NULL

\* A variant of the search that falls back on slot 0 when no slot is free.
FreeSlotOrFirst(list) ==
  IF \E i \in DOMAIN list : list[i] = NULL
  THEN CHOOSE i \in DOMAIN list :
         list[i] = NULL /\ \A k \in DOMAIN list : list[k] = NULL => i <= k
  ELSE 0

\* The search for a free slot: the lowest index that has no owner, or -1.
FreeSlot(list) ==
  IF \E i \in DOMAIN list : list[i] = NULL
  THEN CHOOSE i \in DOMAIN list :
         list[i] = NULL /\ \A k \in DOMAIN list : list[k] = NULL => i <= k
  ELSE -1

\* A variant of mroute4_add_vif that binds the slot before it asks the
\* kernel and keeps the binding when the kernel refuses.
mroute4_add_vif_eager(vl, ifl, sock, iface) ==
  LET vif == FreeSlot(vl) IN
  IF vif = -1
  THEN {[vif_list |-> vl, iface_list |-> ifl,
         ev |-> <<Log("LOG_ERR", Errno.ENOMEM, "out of VIF space")>>]}
  ELSE {[vif_list |-> [vl EXCEPT ![vif] = iface],
         iface_list |-> [ifl EXCEPT ![iface].vif = vif],
         ev |-> <<Log("LOG_NOTICE", 0, "Add VIF"),
                  Sys("MRT_ADD_VIF", [vifc_vifi |-> vif, iface |-> iface], e)>>
                \o (IF e # 0 THEN <<Log("LOG_ERR", e, "MRT_ADD_VIF")>>
                    ELSE <<>>)] : e \in KernelResults(sock)}

\* mroute4_add_vif(iface): the outcomes [vif_list, iface_list, ev].
mroute4_add_vif(vl, ifl, sock, iface) ==
  LET vif == FreeSlot(vl) IN
  IF vif = -1
  THEN {[vif_list |-> vl, iface_list |-> ifl,
         ev |-> <<Log("LOG_ERR", Errno.ENOMEM, "out of VIF space")>>]}
  ELSE {LET op == <<Log("LOG_NOTICE", 0, "Add VIF"),
                    Sys("MRT_ADD_VIF", [vifc_vifi |-> vif, iface |-> iface], e)>>
        IN IF e # 0
           THEN [vif_list |-> vl, iface_list |-> ifl,
                 ev |-> op \o <<Log("LOG_ERR", e, "MRT_ADD_VIF")>>]
           ELSE [vif_list |-> [vl EXCEPT ![vif] = iface],
                 iface_list |-> [ifl EXCEPT ![iface].vif = vif],
                 ev |-> op] : e \in KernelResults(sock)}

\* mroute6_add_mif(iface): the outcomes [mif_list, iface_list, ev].
mroute6_add_mif(ml, ifl, sock, iface) ==
  LET mif == FreeSlot(ml) IN
  IF mif = -1
  THEN {[mif_list |-> ml, iface_list |-> ifl,
         ev |-> <<Log("LOG_ERR", Errno.ENOMEM, "out of MIF space")>>]}
  ELSE {LET op == <<Log("LOG_NOTICE", 0, "Add MIF"),
                    Sys("MRT6_ADD_MIF", [mif6c_mifi |-> mif, iface |-> iface], e)>>
        IN IF e # 0
           THEN [mif_list |-> ml, iface_list |-> ifl,
                 ev |-> op \o <<Log("LOG_ERR", e, "MRT6_ADD_MIF")>>]
           ELSE [mif_list |-> [ml EXCEPT ![mif] = iface],
                 iface_list |-> [ifl EXCEPT ![iface].mif = mif],
                 ev |-> op] : e \in KernelResults(sock)}

\* A variant of the test that takes no interface for a loopback.
IsLoopbackNever(ifl, iface) == FALSE

\* iface->flags & IFF_LOOPBACK.
IsLoopback(ifl, iface) == ifl[iface].loopback

\* The loop body of mroute4_enable for a loopback interface.
Loopback4(ifl, iface) == [ifl EXCEPT ![iface].vif = -1]

\* The loop body of mroute6_enable for a loopback interface.
Loopback6(ifl, iface) == [ifl EXCEPT ![iface].vif = -1]

\* memset(&vif_list, 0, ...): every slot without an owner.
ClearedVifs == [i \in 0 .. MAXVIFS - 1 |-> NULL]
ClearedMifs == [i \in 0 .. MAXMIFS - 1 |-> NULL]

(***************************************************************************)
(* mroute4_disable's two loops: LIST_FOREACH that unlinks and frees every  *)
(* entry it stands on.  A state is [list, ev, crashed].                    *)
(***************************************************************************)
RECURSIVE FreeAll(_, _)
FreeAll(t, name) ==
  IF t.list = <<>> THEN {t}
  ELSE UNION {IF a.on THEN FreeAll(a.st, name) ELSE {a.st} :
              a \in AfterFree([t EXCEPT !.list = Tail(@)], name)}

\* The outcomes [conf, dyn, ev, crashed] of both loops, in order.
Teardown(conf, dyn, ev0) ==
  UNION {IF c.crashed
         THEN {[conf |-> c.list, dyn |-> dyn, ev |-> c.ev, crashed |-> TRUE]}
         ELSE {[conf |-> c.list, dyn |-> d.list, ev |-> d.ev,
                crashed |-> d.crashed] :
               d \in FreeAll([list |-> dyn, ev |-> c.ev, crashed |-> FALSE], "dyn")} :
         c \in FreeAll([list |-> conf, ev |-> ev0, crashed |-> FALSE], "conf")}


\* EnableOpen with the error path of the INIT option forgetting the socket:
\* no close, the descriptor left in place.
EnableOpenLeaks(af, init, failures) ==
  {[sock |-> -1, ok |-> FALSE,
    ev |-> <<Sys("socket", [af |-> af], e)>>] :
    e \in {Errno.ENOPROTOOPT, Errno.EPERM}}
  \cup
  {[sock |-> 3, ok |-> FALSE,
    ev |-> <<Sys("socket", [af |-> af], 0), Sys(init, [arg |-> 1], e),
             Log("LOG_INIT", e, init)>>] : e \in failures}
  \cup
  {[sock |-> 3, ok |-> TRUE,
    ev |-> <<Sys("socket", [af |-> af], 0), Sys(init, [arg |-> 1], 0)>>]}

(***************************************************************************)
(* The opening part of mroute4_enable and mroute6_enable: the socket, the  *)
(* INIT option, and on success the cleared table.  Outcomes                *)
(* [sock, ok, ev]; ok says whether the handler goes on to its loop.        *)
(***************************************************************************)
EnableOpen(af, init, failures) ==
  {[sock |-> -1, ok |-> FALSE,
    ev |-> <<Sys("socket", [af |-> af], e)>>
           \o (IF e = Errno.ENOPROTOOPT
               THEN <<Log("LOG_WARNING", 0, "Kernel does not support")>>
               ELSE <<>>)] : e \in {Errno.ENOPROTOOPT, Errno.EPERM}}
  \cup
  {[sock |-> -1, ok |-> FALSE,
    ev |-> <<Sys("socket", [af |-> af], 0), Sys(init, [arg |-> 1], e),
             Log("LOG_INIT", e, init), Sys("close", [af |-> af], 0)>>] :
    e \in failures}
  \cup
  {[sock |-> 3, ok |-> TRUE,
    ev |-> <<Sys("socket", [af |-> af], 0), Sys(init, [arg |-> 1], 0)>>]}

\* The errno values the INIT option is refused with.
InitFailures == {Errno.EADDRINUSE, Errno.EOPNOTSUPP, Errno.EINVAL}

mroute4_enable_open == EnableOpen("AF_INET", "MRT_INIT", InitFailures)
mroute6_enable_open == EnableOpen("AF_INET6", "MRT6_INIT", InitFailures)

\* proc_set_val(IPV6_ALL_MC_FORWARD, 1) and the log line of its failure.
ProcSetVal ==
  {<<Sys("proc_set_val", [val |-> 1], e)>>
   \o (IF e # 0 /\ e # Errno.EACCES
       THEN <<Log("LOG_ERR", e, "Failed enabling IPv6 mc_forwarding")>>
       ELSE <<>>) : e \in {0, Errno.EACCES, Errno.ENOENT}}

\* The DONE option of mroute4_disable and mroute6_disable, and the close.
DisableClose(af, done, sock) ==
  {<<Sys(done, [arg |-> NULL], e)>>
   \o (IF e # 0 THEN <<Log("LOG_ERR", e, done)>> ELSE <<>>)
   \o <<Sys("close", [af |-> af], 0)>> : e \in KernelResults(sock)}

(***************************************************************************)
(* The state machine.  One handler runs at a time (the daemon is single    *)
(* threaded); pc.fn names the one in progress.                             *)
(***************************************************************************)
Idle == [fn |-> "idle", i |-> 0]
\* The handler is back in its caller, which has its result before it.
Back == [fn |-> "return", i |-> 0]

TypeOK ==
  /\ mroute4_socket \in {-1, 3}
  /\ mroute6_socket \in {-1, 3}
  /\ Len(mroute4_conf_list) + Len(mroute4_dyn_list) <= MaxEntries
  /\ \A i \in DOMAIN mroute4_conf_list :
       mroute4_conf_list[i] \in Requests /\ mroute4_conf_list[i].sender = INADDR_ANY
  /\ \A i \in DOMAIN mroute4_dyn_list :
       mroute4_dyn_list[i] \in Requests \cup DynRequests
  /\ vif_list \in [0 .. MAXVIFS - 1 -> 0 .. NumIfaces]
  /\ mif_list \in [0 .. MAXMIFS - 1 -> 0 .. NumIfaces]
  /\ DOMAIN iface_list = 1 .. NumIfaces
  /\ pc.fn \in {"idle", "mroute4_enable", "mroute6_enable", "return"}
  /\ crashed \in BOOLEAN

\* What every initial state shares: nothing open, empty lists, the zeroed
\* static tables.
InitCore ==
  /\ mroute4_socket = -1
  /\ mroute6_socket = -1
  /\ mroute4_conf_list = <<>>
  /\ mroute4_dyn_list = <<>>
  /\ vif_list = ClearedVifs
  /\ mif_list = ClearedMifs
  /\ pc = Idle
  /\ call = [op |-> "none"]
  /\ ret = 0
  /\ errno = 0
  /\ evlog = <<>>
  /\ crashed = FALSE

\* The route store's specification runs on one directory, of loopback
\* interfaces only: the routes never read the slot tables.
Init ==
  /\ InitCore
  /\ iface_list = [k \in 1 .. NumIfaces |->
                     [loopback |-> TRUE, vif |-> -1, mif |-> -1]]

\* The slot tables' specification runs on every directory: each interface
\* loopback or not, the slot fields of the directory holding the sentinel
\* or the zero of storage nobody wrote.
InitIf ==
  /\ InitCore
  /\ \E f \in {-1, 0} :
       iface_list \in [1 .. NumIfaces ->
                         [loopback : BOOLEAN, vif : {f}, mif : {f}]]

\* A route handler ran to its end with outcome o.
Returned(op, ptr, o) ==
  /\ mroute4_conf_list' = o.conf
  /\ mroute4_dyn_list' = o.dyn
  /\ call' = [op |-> op, ptr |-> ptr]
  /\ ret' = o.ret
  /\ errno' = o.errno
  /\ evlog' = o.ev
  /\ crashed' = o.crashed
  /\ pc' = Back
  /\ UNCHANGED <<mroute4_socket, mroute6_socket, vif_list, mif_list,
                 iface_list>>

Running == pc = Idle /\ ~crashed

Call_mroute4_add(ptr) ==
  /\ Running
  /\ \E o \in mroute4_add(mroute4_conf_list, mroute4_dyn_list,
                          mroute4_socket, ptr) :
       Returned("mroute4_add", ptr, o)

Call_mroute4_dyn_add(ptr) ==
  /\ Running
  /\ \E o \in mroute4_dyn_add(mroute4_conf_list, mroute4_dyn_list,
                              mroute4_socket, ptr) :
       Returned("mroute4_dyn_add", ptr, o)

Call_mroute4_del(ptr) ==
  /\ Running
  /\ \E o \in mroute4_del(mroute4_conf_list, mroute4_dyn_list,
                          mroute4_socket, ptr) :
       Returned("mroute4_del", ptr, o)

\* mroute4_enable up to its loop.
Call_mroute4_enable ==
  /\ Running
  /\ \E o \in mroute4_enable_open :
       /\ mroute4_socket' = o.sock
       /\ vif_list' = IF o.ok THEN ClearedVifs ELSE vif_list
       /\ pc' = IF o.ok THEN [fn |-> "mroute4_enable", i |-> 0] ELSE Back
       /\ ret' = IF o.ok THEN 0 ELSE -1
       /\ evlog' = o.ev
  /\ call' = [op |-> "mroute4_enable"]
  /\ errno' = 0
  /\ UNCHANGED <<mroute6_socket, mroute4_conf_list, mroute4_dyn_list,
                 mif_list, iface_list, crashed>>

\* One turn of its loop over the directory.
Loop_mroute4_enable ==
  /\ pc.fn = "mroute4_enable"
  /\ LET iface == iface_find_by_index(iface_list, pc.i) IN
     /\ iface # NULL
     /\ IF IsLoopback(iface_list, iface)
        THEN /\ iface_list' = Loopback4(iface_list, iface)
             /\ UNCHANGED <<vif_list, evlog>>
        ELSE \E o \in mroute4_add_vif(vif_list, iface_list,
                                      mroute4_socket, iface) :
               /\ vif_list' = o.vif_list
               /\ iface_list' = o.iface_list
               /\ evlog' = evlog \o o.ev
  /\ pc' = [pc EXCEPT !.i = @ + 1]
  /\ UNCHANGED <<mroute4_socket, mroute6_socket, mroute4_conf_list,
                 mroute4_dyn_list, mif_list, call, ret, errno, crashed>>

\* The end of the directory: LIST_INIT of both lists, return 0.
Return_mroute4_enable ==
  /\ pc.fn = "mroute4_enable"
  /\ iface_find_by_index(iface_list, pc.i) = NULL
  /\ mroute4_conf_list' = <<>>
  /\ mroute4_dyn_list' = <<>>
  /\ pc' = Back
  /\ ret' = 0
  /\ UNCHANGED <<mroute4_socket, mroute6_socket, vif_list, mif_list,
                 iface_list, call, errno, evlog, crashed>>

Call_mroute4_disable ==
  /\ Running
  /\ call' = [op |-> "mroute4_disable"]
  /\ ret' = 0
  /\ errno' = 0
  /\ IF mroute4_socket < 0
     THEN /\ evlog' = <<>>
          /\ UNCHANGED <<mroute4_socket, mroute4_conf_list, mroute4_dyn_list,
                         crashed>>
     ELSE \E ev \in DisableClose("AF_INET", "MRT_DONE", mroute4_socket) :
          \E o \in Teardown(mroute4_conf_list, mroute4_dyn_list, ev) :
            /\ mroute4_socket' = -1
            /\ mroute4_conf_list' = o.conf
            /\ mroute4_dyn_list' = o.dyn
            /\ evlog' = o.ev
            /\ crashed' = o.crashed
  /\ pc' = Back
  /\ UNCHANGED <<mroute6_socket, vif_list, mif_list, iface_list>>

\* mroute6_enable up to its loop.
Call_mroute6_enable ==
  /\ Running
  /\ \E o \in mroute6_enable_open :
       /\ mroute6_socket' = o.sock
       /\ mif_list' = IF o.ok THEN ClearedMifs ELSE mif_list
       /\ pc' = IF o.ok THEN [fn |-> "mroute6_enable", i |-> 0] ELSE Back
       /\ ret' = IF o.ok THEN 0 ELSE -1
       /\ IF o.ok THEN \E p \in ProcSetVal : evlog' = o.ev \o p
          ELSE evlog' = o.ev
  /\ call' = [op |-> "mroute6_enable"]
  /\ errno' = 0
  /\ UNCHANGED <<mroute4_socket, mroute4_conf_list, mroute4_dyn_list,
                 vif_list, iface_list, crashed>>

Loop_mroute6_enable ==
  /\ pc.fn = "mroute6_enable"
  /\ LET iface == iface_find_by_index(iface_list, pc.i) IN
     /\ iface # NULL
     /\ IF IsLoopback(iface_list, iface)
        THEN /\ iface_list' = Loopback6(iface_list, iface)
             /\ UNCHANGED <<mif_list, evlog>>
        ELSE \E o \in mroute6_add_mif(mif_list, iface_list,
                                      mroute6_socket, iface) :
               /\ mif_list' = o.mif_list
               /\ iface_list' = o.iface_list
               /\ evlog' = evlog \o o.ev
  /\ pc' = [pc EXCEPT !.i = @ + 1]
  /\ UNCHANGED <<mroute4_socket, mroute6_socket, mroute4_conf_list,
                 mroute4_dyn_list, vif_list, call, ret, errno, crashed>>

Return_mroute6_enable ==
  /\ pc.fn = "mroute6_enable"
  /\ iface_find_by_index(iface_list, pc.i) = NULL
  /\ pc' = Back
  /\ ret' = 0
  /\ UNCHANGED <<mroute4_socket, mroute6_socket, mroute4_conf_list,
                 mroute4_dyn_list, vif_list, mif_list, iface_list, call,
                 errno, evlog, crashed>>

Call_mroute6_disable ==
  /\ Running
  /\ call' = [op |-> "mroute6_disable"]
  /\ ret' = 0
  /\ errno' = 0
  /\ IF mroute6_socket < 0
     THEN /\ evlog' = <<>>
          /\ UNCHANGED mroute6_socket
     ELSE /\ \E ev \in DisableClose("AF_INET6", "MRT6_DONE", mroute6_socket) :
               evlog' = ev
          /\ mroute6_socket' = -1
  /\ pc' = Back
  /\ UNCHANGED <<mroute4_socket, mroute4_conf_list, mroute4_dyn_list,
                 vif_list, mif_list, iface_list, crashed>>

\* The caller takes the handler's result and goes back to its event loop:
\* a handler's trace and return value belong to that one call.
Resume ==
  /\ pc = Back
  /\ ~crashed
  /\ pc' = Idle
  /\ call' = [op |-> "none"]
  /\ ret' = 0
  /\ errno' = 0
  /\ evlog' = <<>>
  /\ UNCHANGED <<mroute4_socket, mroute6_socket, mroute4_conf_list,
                 mroute4_dyn_list, vif_list, mif_list, iface_list, crashed>>

\* The IPv4 route store with its enable and disable.
Next ==
  \/ \E ptr \in Requests : Call_mroute4_add(ptr)
  \/ \E ptr \in Requests : Call_mroute4_dyn_add(ptr)
  \/ \E ptr \in Requests : Call_mroute4_del(ptr)
  \/ Call_mroute4_enable
  \/ Loop_mroute4_enable
  \/ Return_mroute4_enable
  \/ Call_mroute4_disable
  \/ Resume

Spec == Init /\ [][Next]_vars

\* The slot tables of both families under enable and disable.
NextIf ==
  \/ Call_mroute4_enable
  \/ Loop_mroute4_enable
  \/ Return_mroute4_enable
  \/ Call_mroute4_disable
  \/ Call_mroute6_enable
  \/ Loop_mroute6_enable
  \/ Return_mroute6_enable
  \/ Call_mroute6_disable
  \/ Resume

SpecIf == InitIf /\ [][NextIf]_vars

\* Enable and disable of both families next to a route store that holds
\* entries: one directory (the first interface loopback, the others not,
\* every slot field the sentinel) and the requests of one key.
InitEn ==
  /\ InitCore
  /\ iface_list = [k \in 1 .. NumIfaces |->
                     [loopback |-> (k = 1), vif |-> -1, mif |-> -1]]

EnRequests ==
  {Mroute4(s, 1, 0, [v \in 0 .. MAXVIFS - 1 |-> 1]) : s \in {INADDR_ANY, 1}}

NextEn ==
  \/ \E ptr \in EnRequests : Call_mroute4_add(ptr)
  \/ \E ptr \in EnRequests : Call_mroute4_dyn_add(ptr)
  \/ Call_mroute4_enable
  \/ Loop_mroute4_enable
  \/ Return_mroute4_enable
  \/ Call_mroute4_disable
  \/ Call_mroute6_enable
  \/ Loop_mroute6_enable
  \/ Return_mroute6_enable
  \/ Call_mroute6_disable
  \/ Resume

SpecEn == InitEn /\ [][NextEn]_vars


\* Enable and disable of the IPv4 family alone, on every directory whose
\* slot fields hold the sentinel.
InitVif ==
  /\ InitCore
  /\ iface_list \in [1 .. NumIfaces ->
                       [loopback : BOOLEAN, vif : {-1}, mif : {-1}]]

NextVif ==
  \/ Call_mroute4_enable
  \/ Loop_mroute4_enable
  \/ Return_mroute4_enable
  \/ Call_mroute4_disable
  \/ Resume

SpecVif == InitVif /\ [][NextVif]_vars

\* The route store under the requests of one key from two senders, with
\* enable and disable.
NextDyn ==
  \/ \E ptr \in DynRequests : Call_mroute4_add(ptr)
  \/ \E ptr \in DynRequests : Call_mroute4_dyn_add(ptr)
  \/ \E ptr \in DynRequests : Call_mroute4_del(ptr)
  \/ Call_mroute4_enable
  \/ Loop_mroute4_enable
  \/ Return_mroute4_enable
  \/ Call_mroute4_disable
  \/ Resume

SpecDyn == Init /\ [][NextDyn]_vars

(***************************************************************************)
(* The claims.  A claim about one call is stated of the step that makes    *)
(* the call (call' names the handler and its argument, the unprimed        *)
(* variables are the state it found) or of the state the call left.        *)
(***************************************************************************)
\* How many entries of a trace are the operation `name`.
Count(ev, name) == Cardinality({k \in DOMAIN ev : ev[k].op = name})

\* The positions of a list whose entry has group g and inbound VIF iif.
Keyed(list, g, iif) ==
  {k \in DOMAIN list : list[k].group = g /\ list[k].inbound = iif}

\* The step is a call of handler op from the event loop.
Calls(op) == pc = Idle /\ call'.op = op

\* C1: a resolveDynamic(s, g, iif), s not the wildcard, that finds a
\* template for (g, iif) stores the dynamic entry (s, g, iif, v) and hands
\* the kernel's add-forwarding-entry operation the vector v, where v is the
\* vector of a template for (g, iif): not the vector the request carried.
C1_VectorIsTheTemplates ==
  [][(/\ Calls("mroute4_dyn_add")
      /\ call'.ptr.sender # INADDR_ANY
      /\ Keyed(mroute4_conf_list, call'.ptr.group, call'.ptr.inbound) # {})
     => \E i \in Keyed(mroute4_conf_list, call'.ptr.group, call'.ptr.inbound) :
          LET v == mroute4_conf_list[i].ttl IN
          /\ mroute4_dyn_list' # mroute4_dyn_list =>
               Head(mroute4_dyn_list') =
                 Mroute4(call'.ptr.sender, call'.ptr.group, call'.ptr.inbound, v)
          /\ \A k \in DOMAIN evlog' :
               evlog'[k].op = "MRT_ADD_MFC" => evlog'[k].arg.ttls = v]_vars

\* C2: with two or more templates for the same (g, iif), the dynamic entry
\* a resolveDynamic stores has the vector of the one inserted last (the one
\* nearest the head of the template list).
C2_LastInsertedTemplateWins ==
  [][(/\ Calls("mroute4_dyn_add")
      /\ call'.ptr.sender # INADDR_ANY
      /\ Cardinality(Keyed(mroute4_conf_list, call'.ptr.group,
                           call'.ptr.inbound)) >= 2
      /\ mroute4_dyn_list' # mroute4_dyn_list)
     => LET hits == Keyed(mroute4_conf_list, call'.ptr.group, call'.ptr.inbound)
            last == CHOOSE i \in hits : \A k \in hits : i <= k
        IN Head(mroute4_dyn_list').ttl = mroute4_conf_list[last].ttl]_vars

\* C3: a removeTemplate(g, iif) that returns, called when a template for
\* (g, iif) is stored and the dynamic list holds N entries spawned for
\* (g, iif), issues N + 1 kernel remove-forwarding-entry operations: one per
\* spawned entry and a last one for the caller's own (sender, group).
C3_RemovalsAreNPlusOne ==
  [][(/\ Calls("mroute4_del")
      /\ call'.ptr.sender = INADDR_ANY
      /\ ~crashed'
      /\ Keyed(mroute4_conf_list, call'.ptr.group, call'.ptr.inbound) # {})
     => /\ Count(evlog', "MRT_DEL_MFC") =
             Cardinality(Keyed(mroute4_dyn_list, call'.ptr.group,
                               call'.ptr.inbound)) + 1
        /\ LET dels == {k \in DOMAIN evlog' : evlog'[k].op = "MRT_DEL_MFC"}
               own == CHOOSE k \in dels : \A j \in dels : j <= k
           IN evlog'[own].arg = [origin |-> call'.ptr.sender,
                                 mcastgrp |-> call'.ptr.group]]_vars

\* C4: when removeTemplate(g, iif) has returned, neither list holds an entry
\* with group g and inbound VIF iif.
C4_KeyIsGoneFromBothLists ==
  (/\ call.op = "mroute4_del"
   /\ pc = Back
   /\ ~crashed
   /\ call.ptr.sender = INADDR_ANY)
  => /\ Keyed(mroute4_conf_list, call.ptr.group, call.ptr.inbound) = {}
     /\ Keyed(mroute4_dyn_list, call.ptr.group, call.ptr.inbound) = {}

\* C5: a resolveDynamic(s, g, iif) that finds no template with group g and
\* inbound VIF iif returns -1 with errno ENOENT, an outcome no matching call
\* has, does nothing else (no kernel operation, no allocation, no log line)
\* and leaves both lists as they were.
C5_NoMatchDoesNothing ==
  [][Calls("mroute4_dyn_add")
     => IF Keyed(mroute4_conf_list, call'.ptr.group, call'.ptr.inbound) = {}
        THEN /\ ret' = -1
             /\ errno' = Errno.ENOENT
             /\ evlog' = <<>>
             /\ mroute4_conf_list' = mroute4_conf_list
             /\ mroute4_dyn_list' = mroute4_dyn_list
             /\ ~crashed'
        ELSE ret' # -1]_vars

\* C5's case: templates are stored, one of them for the request's group on
\* another inbound VIF, and the call found no match.
C5_Witness ==
  /\ call.op = "mroute4_dyn_add"
  /\ pc = Back
  /\ ret = -1
  /\ \E i \in DOMAIN mroute4_conf_list :
       /\ mroute4_conf_list[i].group = call.ptr.group
       /\ mroute4_conf_list[i].inbound # call.ptr.inbound

\* C6 as claimed: a resolveDynamic that matches issues the kernel's
\* add-forwarding-entry operation once, puts one new entry at the head of
\* the dynamic list and leaves the template list alone.
C6_AlwaysOneNewEntry ==
  [][(/\ Calls("mroute4_dyn_add")
      /\ Keyed(mroute4_conf_list, call'.ptr.group, call'.ptr.inbound) # {})
     => /\ Count(evlog', "MRT_ADD_MFC") = 1
        /\ Len(mroute4_dyn_list') = Len(mroute4_dyn_list) + 1
        /\ Tail(mroute4_dyn_list') = mroute4_dyn_list
        /\ mroute4_conf_list' = mroute4_conf_list]_vars

\* C6 as amended: a resolveDynamic that matches issues the kernel's
\* add-forwarding-entry operation once and leaves the template list alone,
\* however many templates match; it allocates once and, when the allocation
\* gave storage, puts one new entry at the head of the dynamic list; when
\* it gave none, the dynamic list is as it was.
C6_OneAddOneEntryIfAllocated ==
  [][(/\ Calls("mroute4_dyn_add")
      /\ Keyed(mroute4_conf_list, call'.ptr.group, call'.ptr.inbound) # {})
     => /\ Count(evlog', "MRT_ADD_MFC") = 1
        /\ Count(evlog', "malloc") = 1
        /\ mroute4_conf_list' = mroute4_conf_list
        /\ IF \E k \in DOMAIN evlog' :
                evlog'[k].op = "malloc" /\ evlog'[k].err = 0
           THEN /\ Len(mroute4_dyn_list') = Len(mroute4_dyn_list) + 1
                /\ Tail(mroute4_dyn_list') = mroute4_dyn_list
                /\ Matches(Head(mroute4_dyn_list'), call'.ptr)
           ELSE mroute4_dyn_list' = mroute4_dyn_list]_vars

\* C6's case: two templates match the request, the allocation gave storage
\* and the entry stands at the head of the dynamic list.
C6_Witness ==
  /\ call.op = "mroute4_dyn_add"
  /\ pc = Back
  /\ Cardinality(Keyed(mroute4_conf_list, call.ptr.group, call.ptr.inbound)) = 2
  /\ \E k \in DOMAIN evlog : evlog[k].op = "malloc" /\ evlog[k].err = 0
  /\ Len(mroute4_dyn_list) = 1
  /\ Count(evlog, "MRT_ADD_MFC") = 1

\* C7: when mroute4_disable has run its teardown (the socket was open) and
\* returned, both lists are empty and no kernel remove-forwarding-entry
\* operation was issued.
C7_TeardownEmptiesBothLists ==
  (/\ call.op = "mroute4_disable"
   /\ pc = Back
   /\ ~crashed
   /\ Count(evlog, "MRT_DONE") = 1)
  => /\ mroute4_conf_list = <<>>
     /\ mroute4_dyn_list = <<>>
     /\ Count(evlog, "MRT_DEL_MFC") = 0


\* The interface the loop of an enable stands on.
Current == iface_find_by_index(iface_list, pc.i)

\* The step is one turn of the loop of handler fn on an interface that is
\* not a loopback, with every slot of `table` owned.
AssignsWhenFull(fn, table) ==
  /\ pc.fn = fn
  /\ pc'.fn = fn
  /\ ~iface_list[Current].loopback
  /\ \A slot \in DOMAIN table : table[slot] # NULL

\* C8: when every slot of a family's table is owned, assigning one more
\* interface leaves the table and the interface records as they were (the
\* earlier assignments stay), issues no register-slot operation and only
\* logs ENOMEM at error severity; the enable goes on with the next
\* interface.
C8_FullTableIsLeftAlone ==
  [][/\ AssignsWhenFull("mroute4_enable", vif_list) =>
          /\ vif_list' = vif_list
          /\ iface_list' = iface_list
          /\ evlog' = evlog \o <<Log("LOG_ERR", Errno.ENOMEM, "out of VIF space")>>
          /\ pc'.i = pc.i + 1
          /\ ~crashed'
     /\ AssignsWhenFull("mroute6_enable", mif_list) =>
          /\ mif_list' = mif_list
          /\ iface_list' = iface_list
          /\ evlog' = evlog \o <<Log("LOG_ERR", Errno.ENOMEM, "out of MIF space")>>
          /\ pc'.i = pc.i + 1
          /\ ~crashed']_vars

\* C8's case: mroute6_enable has just found no free MIF for an interface,
\* and the VIF table is full as well, with an interface left without VIF.
C8_Witness ==
  /\ pc.fn = "mroute6_enable"
  /\ evlog # <<>>
  /\ evlog[Len(evlog)] = Log("LOG_ERR", Errno.ENOMEM, "out of MIF space")
  /\ \A slot \in DOMAIN mif_list : mif_list[slot] # NULL
  /\ \A slot \in DOMAIN vif_list : vif_list[slot] # NULL
  /\ \E k \in DOMAIN iface_list :
       /\ ~iface_list[k].loopback
       /\ \A slot \in DOMAIN vif_list : vif_list[slot] # k

\* Every interface of the directory is a loopback.
LoopbackOnly == \A k \in DOMAIN iface_list : iface_list[k].loopback

\* The enable `op` of a family got past its INIT option: it is in its loop
\* or has returned with the socket open.
Enabling(op, sock) ==
  /\ call.op = op
  /\ \/ pc.fn = op
     \/ pc = Back /\ sock >= 0

\* C9: on a directory of loopback interfaces only, an enable that got its
\* socket and its INIT option succeeds (returns 0), issues no register-slot
\* operation, and its family's slot table has no owner in any slot.
C9_LoopbackOnlyTakesNoSlot ==
  LoopbackOnly =>
    /\ Enabling("mroute4_enable", mroute4_socket) =>
         /\ Count(evlog, "MRT_ADD_VIF") = 0
         /\ \A slot \in DOMAIN vif_list : vif_list[slot] = NULL
         /\ pc = Back => ret = 0
    /\ Enabling("mroute6_enable", mroute6_socket) =>
         /\ Count(evlog, "MRT6_ADD_MIF") = 0
         /\ \A slot \in DOMAIN mif_list : mif_list[slot] = NULL
         /\ pc = Back => ret = 0

\* C9's case: on a directory of loopbacks mroute6_enable has returned 0
\* after mroute4_enable had succeeded too.
C9_Witness ==
  /\ LoopbackOnly
  /\ call.op = "mroute6_enable"
  /\ pc = Back
  /\ ret = 0
  /\ mroute6_socket >= 0
  /\ mroute4_socket >= 0

\* C10: when an enable has returned 0, every loopback interface holds -1 in
\* the slot field of that family (vif for IPv4, mif for IPv6) and owns no
\* slot of that family's table.
C10_LoopbackHoldsTheSentinel ==
  \A k \in DOMAIN iface_list :
    iface_list[k].loopback =>
      /\ (call.op = "mroute4_enable" /\ pc = Back /\ ret = 0) =>
           /\ iface_list[k].vif = -1
           /\ \A slot \in DOMAIN vif_list : vif_list[slot] # k
      /\ (call.op = "mroute6_enable" /\ pc = Back /\ ret = 0) =>
           /\ iface_list[k].mif = -1
           /\ \A slot \in DOMAIN mif_list : mif_list[slot] # k

\* The socket call or the INIT option of an enable failed.
Failed(ev) == \E k \in 1 .. Len(ev) :
                 ev[k].op \in {"socket", "MRT_INIT", "MRT6_INIT"} /\ ev[k].err # 0

\* A socket that was opened is closed by the last call.
ClosedIfOpened(ev) ==
  (ev[1].op = "socket" /\ ev[1].err = 0) => ev[Len(ev)].op = "close"

\* What a failed enable leaves behind, sock the family's descriptor after it.
LeftDisabled(sock) ==
  /\ sock = -1
  /\ pc' = Back
  /\ ClosedIfOpened(evlog')
  /\ Count(evlog', "MRT_ADD_VIF") = 0
  /\ Count(evlog', "MRT6_ADD_MIF") = 0
  /\ vif_list' = vif_list
  /\ mif_list' = mif_list
  /\ iface_list' = iface_list
  /\ mroute4_conf_list' = mroute4_conf_list
  /\ mroute4_dyn_list' = mroute4_dyn_list

\* C11: an enable that fails (the socket refused, or the INIT option refused
\* with any errno) returns -1 with the family's socket closed if it was
\* opened and the descriptor at -1, issues no ADD_VIF or ADD_MIF, and leaves
\* the slot tables, the interface records and both route lists as they
\* were.  It fails exactly when one of the two calls fails.
C11_FailedEnableLeavesTheFamilyDisabled ==
  [][/\ Calls("mroute4_enable")
        => /\ (ret' = -1) = Failed(evlog')
           /\ (ret' = -1) => LeftDisabled(mroute4_socket')
     /\ Calls("mroute6_enable")
        => /\ (ret' = -1) = Failed(evlog')
           /\ (ret' = -1) => LeftDisabled(mroute6_socket')]_vars

\* An IPv4 enable refused with EADDRINUSE while the slot table holds an
\* interface and both lists hold an entry.
C11_Witness ==
  /\ call.op = "mroute4_enable"
  /\ pc = Back
  /\ ret = -1
  /\ \E k \in 1 .. Len(evlog) :
       evlog[k].op = "MRT_INIT" /\ evlog[k].err = Errno.EADDRINUSE
  /\ mroute4_socket = -1
  /\ \E s \in DOMAIN vif_list : vif_list[s] # NULL
  /\ mroute4_conf_list # <<>>
  /\ mroute4_dyn_list # <<>>

\* The trace holds none of the kernel's two route operations.
NoKernelOp(ev) == Count(ev, "MRT_ADD_MFC") = 0 /\ Count(ev, "MRT_DEL_MFC") = 0

\* The trace's malloc gave storage.
Allocated(ev) == \E k \in DOMAIN ev : ev[k].op = "malloc" /\ ev[k].err = 0

\* The trace's only call of kernel operation `name` is for (sender, group)
\* of ptr, and r is what it reported.
OneKernelOp(ev, name, ptr, r) ==
  /\ Count(ev, name) = 1
  /\ \A k \in DOMAIN ev :
       ev[k].op = name => /\ ev[k].arg.origin = ptr.sender
                          /\ ev[k].arg.mcastgrp = ptr.group
                          /\ ev[k].err = r

\* C12 as the spec words it: an addRoute with the wildcard sender puts the
\* entry at the head of the template list without a duplicate check,
\* returns success, issues no kernel operation and leaves the dynamic list
\* alone.
C12_TemplateIsAlwaysInserted ==
  [][(Calls("mroute4_add") /\ call'.ptr.sender = INADDR_ANY)
     => /\ mroute4_conf_list' = <<call'.ptr>> \o mroute4_conf_list
        /\ ret' = 0
        /\ NoKernelOp(evlog')
        /\ mroute4_dyn_list' = mroute4_dyn_list]_vars

\* C12 as amended: an addRoute with the wildcard sender allocates once,
\* issues no kernel operation and leaves the dynamic list alone; when the
\* allocation gave storage the entry is put at the head of the template list,
\* duplicates included, and the call returns 0; when it gave none the
\* template list is as it was and the call returns the errno.
C12_TemplateIsInsertedIfAllocated ==
  [][(Calls("mroute4_add") /\ call'.ptr.sender = INADDR_ANY)
     => /\ Count(evlog', "malloc") = 1
        /\ NoKernelOp(evlog')
        /\ mroute4_dyn_list' = mroute4_dyn_list
        /\ IF Allocated(evlog')
           THEN /\ mroute4_conf_list' = <<call'.ptr>> \o mroute4_conf_list
                /\ ret' = 0
           ELSE /\ mroute4_conf_list' = mroute4_conf_list
                /\ ret' = Errno.ENOMEM]_vars

\* C12's case: the template just stored stands at the head, before an equal
\* one stored earlier, next to a dynamic list that holds an entry.
C12_Witness ==
  /\ call.op = "mroute4_add"
  /\ call.ptr.sender = INADDR_ANY
  /\ pc = Back
  /\ ret = 0
  /\ Len(mroute4_conf_list) >= 2
  /\ mroute4_conf_list[1] = call.ptr
  /\ mroute4_conf_list[2] = call.ptr
  /\ mroute4_dyn_list # <<>>

\* C13: an addRoute and a delRoute whose sender is not the wildcard issue
\* exactly one kernel operation, the add or the remove for the request's
\* (sender, group), return what it reported, allocate and free nothing, and
\* leave both lists as they were, also when the dynamic list holds an entry
\* of that (sender, group).
C13_SourceSpecificRoutesBypassTheStore ==
  [][/\ (Calls("mroute4_add") /\ call'.ptr.sender # INADDR_ANY)
        => /\ OneKernelOp(evlog', "MRT_ADD_MFC", call'.ptr, ret')
           /\ Count(evlog', "MRT_DEL_MFC") = 0
           /\ Count(evlog', "malloc") = 0
           /\ mroute4_conf_list' = mroute4_conf_list
           /\ mroute4_dyn_list' = mroute4_dyn_list
     /\ (Calls("mroute4_del") /\ call'.ptr.sender # INADDR_ANY)
        => /\ OneKernelOp(evlog', "MRT_DEL_MFC", call'.ptr, ret')
           /\ Count(evlog', "MRT_ADD_MFC") = 0
           /\ Count(evlog', "read_freed") = 0
           /\ mroute4_conf_list' = mroute4_conf_list
           /\ mroute4_dyn_list' = mroute4_dyn_list]_vars

\* C13's case: a source-specific delRoute has returned and the dynamic list
\* still holds the entry of its (sender, group), under its template.
C13_Witness ==
  /\ call.op = "mroute4_del"
  /\ call.ptr.sender # INADDR_ANY
  /\ pc = Back
  /\ Count(evlog, "MRT_DEL_MFC") = 1
  /\ \E k \in DOMAIN mroute4_dyn_list :
       /\ mroute4_dyn_list[k].sender = call.ptr.sender
       /\ mroute4_dyn_list[k].group = call.ptr.group
  /\ mroute4_conf_list # <<>>

\* C14: when malloc gives no storage inside a resolveDynamic that matched a
\* template, the call goes on: the kernel add is issued exactly once, for
\* the request's (sender, group), the call returns what the kernel reported,
\* and both lists are as they were.
C14_AllocationFailureIsSwallowed ==
  [][(/\ Calls("mroute4_dyn_add")
      /\ Keyed(mroute4_conf_list, call'.ptr.group, call'.ptr.inbound) # {}
      /\ ~Allocated(evlog'))
     => /\ OneKernelOp(evlog', "MRT_ADD_MFC", call'.ptr, ret')
        /\ mroute4_dyn_list' = mroute4_dyn_list
        /\ mroute4_conf_list' = mroute4_conf_list]_vars

\* C14's case: the heap had room, malloc gave NULL all the same, and the
\* kernel took the route.
C14_Witness ==
  /\ call.op = "mroute4_dyn_add"
  /\ pc = Back
  /\ \E k \in DOMAIN evlog : evlog[k].op = "malloc" /\ evlog[k].err # 0
  /\ Len(mroute4_conf_list) + Len(mroute4_dyn_list) < MaxEntries
  /\ Count(evlog, "MRT_ADD_MFC") = 1
  /\ ret = 0

\* C15: a delRoute with the wildcard sender that finds no template of the
\* request's (group, inbound) issues exactly one kernel remove, for the
\* request's own (sender, group), returns what it reported, frees nothing
\* and leaves both lists as they were, the dynamic entries of that
\* (group, inbound) included.
C15_NoTemplateOneRemoval ==
  [][(/\ Calls("mroute4_del")
      /\ call'.ptr.sender = INADDR_ANY
      /\ Keyed(mroute4_conf_list, call'.ptr.group, call'.ptr.inbound) = {})
     => /\ OneKernelOp(evlog', "MRT_DEL_MFC", call'.ptr, ret')
        /\ Count(evlog', "read_freed") = 0
        /\ ~crashed'
        /\ mroute4_conf_list' = mroute4_conf_list
        /\ mroute4_dyn_list' = mroute4_dyn_list]_vars

\* C15's case: the call has returned, no template has its key and the
\* dynamic list holds an entry that has.
C15_Witness ==
  /\ call.op = "mroute4_del"
  /\ call.ptr.sender = INADDR_ANY
  /\ pc = Back
  /\ Count(evlog, "MRT_DEL_MFC") = 1
  /\ Keyed(mroute4_conf_list, call.ptr.group, call.ptr.inbound) = {}
  /\ Keyed(mroute4_dyn_list, call.ptr.group, call.ptr.inbound) # {}

\* The step is one turn of the loop of handler fn on an interface that is
\* not a loopback, with a slot of `table` free.
AssignsWithRoom(fn, table) ==
  /\ pc.fn = fn
  /\ pc'.fn = fn
  /\ ~iface_list[Current].loopback
  /\ \E slot \in DOMAIN table : table[slot] = NULL

\* The lowest index of the table that has no owner.
LowestFree(table) ==
  CHOOSE s \in DOMAIN table :
    table[s] = NULL /\ \A k \in DOMAIN table : k < s => table[k] # NULL

\* C16: assigning an interface while a slot is free hands the kernel's
\* register-slot operation the lowest free index, once; when the kernel
\* accepts, the interface owns that slot and its record holds the slot
\* number; when the kernel refuses, the table and the records are as they
\* were, so that the lowest free index is still the same one.
C16_LowestFreeSlotBoundOnSuccess ==
  [][/\ AssignsWithRoom("mroute4_enable", vif_list) =>
          LET s == LowestFree(vif_list) IN
          \E e \in {0} \cup {Errno[n] : n \in DOMAIN Errno} :
            /\ Len(evlog') >= Len(evlog) + 2
            /\ evlog'[Len(evlog) + 2] =
                  Sys("MRT_ADD_VIF", [vifc_vifi |-> s, iface |-> Current], e)
            /\ Count(evlog', "MRT_ADD_VIF") = Count(evlog, "MRT_ADD_VIF") + 1
            /\ IF e = 0
               THEN /\ vif_list' = [vif_list EXCEPT ![s] = Current]
                    /\ iface_list' = [iface_list EXCEPT ![Current].vif = s]
               ELSE /\ vif_list' = vif_list
                    /\ iface_list' = iface_list
                    /\ LowestFree(vif_list') = s
     /\ AssignsWithRoom("mroute6_enable", mif_list) =>
          LET s == LowestFree(mif_list) IN
          \E e \in {0} \cup {Errno[n] : n \in DOMAIN Errno} :
            /\ Len(evlog') >= Len(evlog) + 2
            /\ evlog'[Len(evlog) + 2] =
                  Sys("MRT6_ADD_MIF", [mif6c_mifi |-> s, iface |-> Current], e)
            /\ Count(evlog', "MRT6_ADD_MIF") = Count(evlog, "MRT6_ADD_MIF") + 1
            /\ IF e = 0
               THEN /\ mif_list' = [mif_list EXCEPT ![s] = Current]
                    /\ iface_list' = [iface_list EXCEPT ![Current].mif = s]
               ELSE /\ mif_list' = mif_list
                    /\ iface_list' = iface_list
                    /\ LowestFree(mif_list') = s]_vars

\* C16's case: the kernel refused a VIF for one interface and accepted the
\* same index for the next, which owns it and whose record holds it; the
\* record of the refused interface is not that index.
C16_Witness ==
  /\ pc.fn = "mroute4_enable"
  /\ \E j, k \in DOMAIN evlog :
       /\ j < k
       /\ evlog[j].op = "MRT_ADD_VIF"
       /\ evlog[k].op = "MRT_ADD_VIF"
       /\ evlog[j].err # 0
       /\ evlog[k].err = 0
       /\ evlog[j].arg.vifc_vifi = evlog[k].arg.vifc_vifi
       /\ evlog[j].arg.iface # evlog[k].arg.iface
       /\ vif_list[evlog[k].arg.vifc_vifi] = evlog[k].arg.iface
       /\ iface_list[evlog[k].arg.iface].vif = evlog[k].arg.vifc_vifi
       /\ iface_list[evlog[j].arg.iface].vif # evlog[j].arg.vifc_vifi

\* C17: in every state the IPv4 calls reach, whatever the kernel and malloc
\* answer, each entry of the dynamic list has a template of its
\* (group, inbound) in the template list.
C17_DynamicEntriesHaveATemplate ==
  ~crashed =>
    \A k \in DOMAIN mroute4_dyn_list :
      Keyed(mroute4_conf_list, mroute4_dyn_list[k].group,
            mroute4_dyn_list[k].inbound) # {}

\* C18: the traversals of mroute4_del and mroute4_disable read no entry
\* that they have unlinked and freed.
C18_NoEntryIsReadAfterItsFree ==
  call.op \in {"mroute4_del", "mroute4_disable"}
    => Count(evlog, "read_freed") = 0

\* C19: between the calls of any sequence of IPv4 enables and disables,
\* started with every record at the sentinel and whatever the kernel
\* answers, no two interfaces carry the same slot number >= 0, and an
\* interface whose record holds slot s >= 0 owns slot s of the table.
C19_SlotNumbersAreUnique ==
  pc = Idle =>
    /\ \A a, b \in DOMAIN iface_list :
         (a # b /\ iface_list[a].vif >= 0)
           => iface_list[a].vif # iface_list[b].vif
    /\ \A a \in DOMAIN iface_list :
         iface_list[a].vif >= 0 => vif_list[iface_list[a].vif] = a

\* The trace holds a kernel remove for (sender, group) of ptr.
RemovalFor(ev, ptr) ==
  \E k \in DOMAIN ev : /\ ev[k].op = "MRT_DEL_MFC"
                        /\ ev[k].arg.origin = ptr.sender
                        /\ ev[k].arg.mcastgrp = ptr.group

\* A removeTemplate for the key of ptr on these lists, when it returns,
\* has issued a kernel remove for (sender, group) of ptr.
RemovedLater(conf, dyn, sock, ptr) ==
  \A o \in mroute4_del(conf, dyn, sock, [ptr EXCEPT !.sender = INADDR_ANY]) :
    ~o.crashed => RemovalFor(o.ev, ptr)

\* C20: a resolveDynamic that matches a template and whose kernel add is
\* refused asks the kernel once and returns its errno; the entry it stored
\* stays at the head of the dynamic list, and a removeTemplate for its
\* (group, inbound) that comes later, at once or after one more
\* resolveDynamic, issues a kernel remove for its (sender, group).
C20_RefusedEntryIsKeptAndRemovedLater ==
  [][(/\ Calls("mroute4_dyn_add")
      /\ Keyed(mroute4_conf_list, call'.ptr.group, call'.ptr.inbound) # {}
      /\ ret' # 0)
     => /\ OneKernelOp(evlog', "MRT_ADD_MFC", call'.ptr, ret')
        /\ mroute4_conf_list' = mroute4_conf_list
        /\ Allocated(evlog') =>
             /\ mroute4_dyn_list' = <<call'.ptr>> \o mroute4_dyn_list
             /\ RemovedLater(mroute4_conf_list', mroute4_dyn_list',
                             mroute4_socket, call'.ptr)
             /\ \A q \in DynRequests :
                  \A o \in mroute4_dyn_add(mroute4_conf_list',
                                            mroute4_dyn_list',
                                            mroute4_socket, q) :
                    RemovedLater(o.conf, o.dyn, mroute4_socket, call'.ptr)]_vars

=============================================================================
